---- MODULE Spec2Model ----
(***************************************************************************)
(* Model of the GromacsTools scripts.                                      *)
(*                                                                         *)
(*   compute_rmsd.py   main(): region parsing, chain lookup, atom          *)
(*                     classification, per-group key matching,            *)
(*                     superposition on the shared target coordinates,     *)
(*                     CSV report.                                         *)
(*   gmx2pdb_strip.py  ProteinSelect.accept_atom: the atom filter.         *)
(*                                                                         *)
(* A Python str is a sequence of one-character strings.  An optional       *)
(* value (None or v) is the sequence <<>> or <<v>>.  Bio.PDB.Superimposer  *)
(* is a library outside the repository: its fit is kept symbolic, as an    *)
(* uninterpreted function of the coordinate pairs the code hands to it.    *)
(***************************************************************************)
EXTENDS Integers, Sequences, FiniteSets, TLC

(***************************************************************************)
(* Bounds of the model.                                                    *)
(***************************************************************************)
\* residue numbers and interval ends range over 1..MaxNum
MaxNum == 2
\* tokens in the three region specifications together (args-rich inputs)
MaxTokens == 2
\* residues in the reference and the target chain together (chain-rich inputs)
MaxRes == 2

(***************************************************************************)
(* Python str helpers: str.split(sep), int(str).                           *)
(***************************************************************************)
Digits == <<"0", "1", "2", "3", "4", "5", "6", "7", "8", "9">>

IsDigit(c) == \E d \in 1..10 : Digits[d] = c

DigitVal(c) == (CHOOSE d \in 1..10 : Digits[d] = c) - 1

RECURSIVE split(_, _)
\* s.split(sep) with an explicit separator: always at least one part
split(s, sep) ==
    IF \A i \in 1..Len(s) : s[i] # sep
    THEN <<s>>
    ELSE LET i == CHOOSE k \in 1..Len(s) :
                     s[k] = sep /\ \A j \in 1..(k - 1) : s[j] # sep
         IN  <<SubSeq(s, 1, i - 1)>> \o split(SubSeq(s, i + 1, Len(s)), sep)

RECURSIVE strip(_)
\* s.strip() for the blank character
strip(s) ==
    IF s = <<>> THEN s
    ELSE IF s[1] = " " THEN strip(Tail(s))
    ELSE IF s[Len(s)] = " " THEN strip(SubSeq(s, 1, Len(s) - 1))
    ELSE s

\* the digits of an int() literal, after blanks and an optional sign
int_body(s) ==
    LET t == strip(s)
    IN  IF t # <<>> /\ t[1] \in {"+", "-"} THEN Tail(t) ELSE t

\* int(s) does not raise ValueError
int_ok(s) ==
    LET u == int_body(s)
    IN  u # <<>> /\ \A i \in 1..Len(u) : IsDigit(u[i])

RECURSIVE digits_value(_)
digits_value(u) ==
    IF u = <<>> THEN 0
    ELSE 10 * digits_value(SubSeq(u, 1, Len(u) - 1)) + DigitVal(u[Len(u)])

\* int(s), for s with int_ok(s)
int(s) ==
    LET t == strip(s)
        v == digits_value(int_body(s))
    IN  IF t # <<>> /\ t[1] = "-" THEN 0 - v ELSE v

(***************************************************************************)
(* parse_ranges: '45-55,120-130' -> <<(45,55),(120,130)>>, or ValueError.  *)
(***************************************************************************)
\* variant: extra hyphen-separated fields are ignored instead of raising
part_ok_lenient(part) ==
    LET f == split(part, "-")
    IN  Len(f) >= 2 /\ int_ok(f[1]) /\ int_ok(f[2])

\* start,end = part.split('-'); int(start); int(end) all succeed
part_ok(part) ==
    LET f == split(part, "-")
    IN  Len(f) = 2 /\ int_ok(f[1]) /\ int_ok(f[2])

part_region(part) ==
    LET f == split(part, "-")
    IN  <<int(f[1]), int(f[2])>>

parse_ranges(rangestr) ==
    LET parts == split(rangestr, ",")
    IN  IF \A i \in 1..Len(parts) : part_ok(parts[i])
        THEN [raised |-> FALSE,
              regions |-> [i \in 1..Len(parts) |-> part_region(parts[i])]]
        ELSE [raised |-> TRUE, regions |-> <<>>]

\* parse_ranges(arg) if arg else []
parse_arg(arg) ==
    IF arg = <<>> THEN [raised |-> FALSE, regions |-> <<>>]
    ELSE parse_ranges(arg)

\* variant: the end of an interval is exclusive
in_regions_halfopen(regs, resnum) ==
    \E i \in 1..Len(regs) : regs[i][1] <= resnum /\ resnum < regs[i][2]

\* any(start <= resnum <= end for start,end in regs)
in_regions(regs, resnum) ==
    \E i \in 1..Len(regs) : regs[i][1] <= resnum /\ resnum <= regs[i][2]

(***************************************************************************)
(* Python dict with insertion order: a sequence of [k, v] entries.         *)
(***************************************************************************)
dict_keys(d) == [i \in 1..Len(d) |-> d[i].k]

dict_has(d, key) == \E i \in 1..Len(d) : d[i].k = key

dict_get(d, key) == d[CHOOSE i \in 1..Len(d) : d[i].k = key].v

\* d[key] = val: overwrites in place, or appends a new key
dict_set(d, key, val) ==
    IF dict_has(d, key)
    THEN [i \in 1..Len(d) |->
            IF d[i].k = key THEN [k |-> key, v |-> val] ELSE d[i]]
    ELSE Append(d, [k |-> key, v |-> val])

\* d[key].append(x)
dict_append(d, key, x) == dict_set(d, key, Append(dict_get(d, key), x))

(***************************************************************************)
(* Structures.  A chain is a sequence of residues [num, resname, atoms],   *)
(* atoms a sequence of [name, coord].  An Atom object is the reference     *)
(* <<r, a>> into its chain.                                                *)
(***************************************************************************)
\* the 20 standard amino acids
standard_aa ==
    {"ALA", "ARG", "ASN", "ASP", "CYS", "GLN", "GLU", "GLY", "HIS", "ILE",
     "LEU", "LYS", "MET", "PHE", "PRO", "SER", "THR", "TRP", "TYR", "VAL"}

\* is_aa(res, standard=True)
is_aa(res) == res.resname \in standard_aa

get_name(chain, atom) == chain[atom[1]].atoms[atom[2]].name

\* atom.get_parent().get_id()[1]
get_resnum(chain, atom) == chain[atom[1]].num

get_coord(chain, atom) == chain[atom[1]].atoms[atom[2]].coord

\* chain.get_atoms(): every atom of the chain, standard residue or not
get_atoms(chain) ==
    UNION {{<<r, a>> : a \in 1..Len(chain[r].atoms)} : r \in 1..Len(chain)}

(***************************************************************************)
(* atom_groups: the five atom lists of a chain.                            *)
(***************************************************************************)
group_names == <<"all", "backbone", "loop", "ec", "ic">>

\* variant: the carbonyl oxygen counted as backbone
backbone_names_with_O == {"N", "CA", "C", "O"}

backbone_names == {"N", "CA", "C"}

\* groups = {k: [] for k in ['all','backbone','loop','ec','ic']}
empty_groups == [i \in 1..Len(group_names) |-> [k |-> group_names[i], v |-> <<>>]]

\* the body of "for atom in res"
place_atom(groups, chain, atom, loop_regs, ec_regs, ic_regs) ==
    LET resnum == get_resnum(chain, atom)
        g1 == dict_append(groups, "all", atom)
        g2 == IF get_name(chain, atom) \in backbone_names
              THEN dict_append(g1, "backbone", atom) ELSE g1
        g3 == IF in_regions(loop_regs, resnum)
              THEN dict_append(g2, "loop", atom) ELSE g2
        g4 == IF in_regions(ec_regs, resnum)
              THEN dict_append(g3, "ec", atom) ELSE g3
    IN  IF in_regions(ic_regs, resnum)
        THEN dict_append(g4, "ic", atom) ELSE g4

RECURSIVE place_atoms(_, _, _, _, _, _, _)
\* "for atom in res", from atom a on
place_atoms(groups, chain, r, a, loop_regs, ec_regs, ic_regs) ==
    IF a > Len(chain[r].atoms) THEN groups
    ELSE place_atoms(place_atom(groups, chain, <<r, a>>, loop_regs, ec_regs, ic_regs),
                     chain, r, a + 1, loop_regs, ec_regs, ic_regs)

RECURSIVE place_residues(_, _, _, _, _, _)
\* "for res in chain", from residue r on
place_residues(groups, chain, r, loop_regs, ec_regs, ic_regs) ==
    IF r > Len(chain) THEN groups
    ELSE IF ~is_aa(chain[r])
    THEN place_residues(groups, chain, r + 1, loop_regs, ec_regs, ic_regs)
    ELSE place_residues(place_atoms(groups, chain, r, 1, loop_regs, ec_regs, ic_regs),
                        chain, r + 1, loop_regs, ec_regs, ic_regs)

atom_groups(chain, loop_regs, ec_regs, ic_regs) ==
    place_residues(empty_groups, chain, 1, loop_regs, ec_regs, ic_regs)

(***************************************************************************)
(* Key matching of one group.                                              *)
(***************************************************************************)
atom_key(chain, atom) == <<get_resnum(chain, atom), get_name(chain, atom)>>

RECURSIVE key_map_from(_, _, _, _)
key_map_from(map, chain, atoms, i) ==
    IF i > Len(atoms) THEN map
    ELSE key_map_from(dict_set(map, atom_key(chain, atoms[i]), atoms[i]),
                      chain, atoms, i + 1)

\* { (resnum, name): atom for atom in atoms }: a later atom replaces an earlier one
key_map(chain, atoms) == key_map_from(<<>>, chain, atoms, 1)

key_set(map) == {map[i].k : i \in 1..Len(map)}

\* set(ref_map) & set(cv_map)
shared_keys(ref_map, cv_map) == key_set(ref_map) \cap key_set(cv_map)

\* the orders in which iterating a set can yield its elements
iteration_orders(S) ==
    {o \in [1..Cardinality(S) -> S] : \A i, j \in 1..Cardinality(S) : i # j => o[i] # o[j]}

\* [ map[k] for k in keys ]
atoms_for(map, order) == [i \in 1..Len(order) |-> dict_get(map, order[i])]

(***************************************************************************)
(* Superimposer (Bio.PDB), symbolic: the transform and the rms are         *)
(* uninterpreted functions of the coordinate pairs it is given; a          *)
(* coordinate is its atom's original position with the transforms applied  *)
(* to it so far.                                                           *)
(***************************************************************************)
coord_pairs(fixed_coords, moving_coords) ==
    {<<fixed_coords[i], moving_coords[i]>> : i \in 1..Len(fixed_coords)}

\* sup.set_atoms(fixed, moving): the fit over index-aligned lists
set_atoms(ref_chain_, cv_chain_, fixed, moving) ==
    LET fc == [i \in 1..Len(fixed) |-> get_coord(ref_chain_, fixed[i])]
        mc == [i \in 1..Len(moving) |-> get_coord(cv_chain_, moving[i])]
    IN  [fixed |-> fixed, moving |-> moving,
         rotran |-> [fit |-> coord_pairs(fc, mc)],
         rms |-> [rms |-> coord_pairs(fc, mc)]]

\* the transform applied to one coordinate
transform(rotran, coord) == [coord EXCEPT !.moved = Append(@, rotran)]

\* variant: only the atoms of standard residues are moved
apply_targets_standard(chain) == {at \in get_atoms(chain) : is_aa(chain[at[1]])}

\* the atoms sup.apply(...) is handed: cv_chain.get_atoms()
apply_targets(chain) == get_atoms(chain)

\* sup.apply(atom_list): every listed atom's coordinate is overwritten in place
apply(rotran, chain, targets) ==
    [r \in 1..Len(chain) |->
        [chain[r] EXCEPT !.atoms =
            [a \in 1..Len(chain[r].atoms) |->
                IF <<r, a>> \in targets
                THEN [chain[r].atoms[a] EXCEPT !.coord = transform(rotran, @)]
                ELSE chain[r].atoms[a]]]]

(***************************************************************************)
(* The report.                                                             *)
(***************************************************************************)
\* variant: the atoms are counted, not their distinct keys
n_atoms_len(chain, atoms) == Len(atoms)

\* len(set((a.get_parent().get_id()[1], a.get_name()) for a in ref_atoms[grp]))
n_atoms(chain, atoms) == Cardinality({atom_key(chain, atoms[i]) : i \in 1..Len(atoms)})

\* f"{rms:.3f}" if rms is not None else 'NA'
rmsd_cell(rms) ==
    IF rms = <<>> THEN [text |-> "NA", of |-> <<>>]
    ELSE [text |-> "%.3f", of |-> rms]

csv_header == <<"group", "n_atoms", "rmsd">>

\* variant: a group without an RMSD reports no atoms
csv_row_zero(chain, groups, grp, rms) ==
    [group |-> grp,
     n_atoms |-> IF rms = <<>> THEN 0 ELSE n_atoms(chain, dict_get(groups, grp)),
     rmsd |-> rmsd_cell(rms)]

csv_row(chain, groups, grp, rms) ==
    [group |-> grp, n_atoms |-> n_atoms(chain, dict_get(groups, grp)), rmsd |-> rmsd_cell(rms)]

\* one row per entry of results, in the order of results.items()
csv_rows(chain, groups, res) ==
    [i \in 1..Len(res) |-> csv_row(chain, groups, res[i].k, res[i].v)]

(***************************************************************************)
(* State of one run of compute_rmsd.py main().                             *)
(***************************************************************************)
VARIABLES
    pc,           \* the statement main() is at
    args,         \* argparse result: loops, ec, ic (str), chain
    intent,       \* what the user's region specifications were written from
    ref_struct,   \* parsed reference structure: chain id -> chain
    conv_struct,  \* parsed converted structure; its coordinates are mutable
    loops, ec, ic,        \* parsed region lists
    ref_chain, cv_chain,  \* the extracted chains (references into the structures)
    ref_atoms, cv_atoms,  \* atom_groups of each chain
    grp_i,        \* position of "for grp in ref_atoms"
    keys,         \* the shared keys of the current group, in set iteration order
    sup,          \* the current group's Superimposer after set_atoms
    results,      \* dict grp -> rms or None
    out,          \* the CSV file: absent, or header and rows
    pdb_atoms, pdb_i, pdb_out   \* gmx2pdb_strip.py: atoms read, position, atoms saved

vars == <<pc, args, intent, ref_struct, conv_struct, loops, ec, ic, ref_chain,
          cv_chain, ref_atoms, cv_atoms, grp_i, keys, sup, results, out,
          pdb_atoms, pdb_i, pdb_out>>

rmsd_vars == <<pc, args, intent, ref_struct, conv_struct, loops, ec, ic, ref_chain,
               cv_chain, ref_atoms, cv_atoms, grp_i, keys, sup, results, out>>

strip_vars == <<pdb_atoms, pdb_i, pdb_out>>

(***************************************************************************)
(* Inputs.                                                                 *)
(***************************************************************************)
RECURSIVE str(_)
\* decimal text of n >= 0
str(n) == IF n < 10 THEN <<Digits[n + 1]>> ELSE str(n \div 10) \o <<Digits[(n % 10) + 1]>>

\* a residue number with two digits
WideNum == 10 + MaxNum

\* tokens a user writes meaning the closed interval lo..hi
RangeTokens ==
    {[kind |-> "range", lo |-> l, hi |-> h] : l \in 1..MaxNum, h \in 1..MaxNum}
    \cup {[kind |-> "range", lo |-> MaxNum, hi |-> WideNum]}

\* tokens that are not two integers separated by one hyphen
BadKinds == {"single", "triple", "alpha", "halfopen", "blank"}

BadTokens == {[kind |-> k, lo |-> 1, hi |-> MaxNum] : k \in BadKinds}

Tokens == RangeTokens \cup BadTokens

token_text(t) ==
    CASE t.kind = "range"    -> str(t.lo) \o <<"-">> \o str(t.hi)
      [] t.kind = "single"   -> str(t.lo)
      [] t.kind = "triple"   -> str(t.lo) \o <<"-">> \o str(t.hi) \o <<"-">> \o str(t.hi)
      [] t.kind = "alpha"    -> <<"x", "-">> \o str(t.hi)
      [] t.kind = "halfopen" -> str(t.lo) \o <<"-">>
      [] t.kind = "blank"    -> <<>>

RECURSIVE join_tokens(_)
\* the tokens, comma-separated
join_tokens(ts) ==
    IF ts = <<>> THEN <<>>
    ELSE IF Len(ts) = 1 THEN token_text(ts[1])
    ELSE token_text(ts[1]) \o <<",">> \o join_tokens(Tail(ts))

\* a specification that is given (non-empty text) and holds a malformed token
malformed(ts) == join_tokens(ts) # <<>> /\ \E i \in 1..Len(ts) : ts[i].kind # "range"

make_args(l, e, i, c) ==
    [loops |-> join_tokens(l), ec |-> join_tokens(e), ic |-> join_tokens(i), chain |-> c]

origin(side, r, a) == [at |-> <<side, r, a>>, moved |-> <<>>]

\* a chain as the PDB parser builds it from residue shapes [num, resname, names]
make_chain(side, shapes) ==
    [r \in 1..Len(shapes) |->
        [num |-> shapes[r].num, resname |-> shapes[r].resname,
         atoms |-> [a \in 1..Len(shapes[r].names) |->
                      [name |-> shapes[r].names[a], coord |-> origin(side, r, a)]]]]

make_struct(ids, side, shapes) == [c \in ids |-> make_chain(side, shapes)]

ResidueKinds ==
    {[resname |-> "ALA", names |-> <<"CA">>],
     [resname |-> "ALA", names |-> <<"N", "O">>],
     [resname |-> "MSE", names |-> <<"CA">>]}

ResidueShapes ==
    {[num |-> n, resname |-> k.resname, names |-> k.names] : n \in 1..MaxNum, k \in ResidueKinds}

\* two residues numbered 1 (an insertion code apart), a zinc ion
FixedRef ==
    <<[num |-> 1, resname |-> "ALA", names |-> <<"N", "CA">>],
      [num |-> 1, resname |-> "ALA", names |-> <<"CA">>],
      [num |-> 2, resname |-> "GLY", names |-> <<"CA", "O">>],
      [num |-> 3, resname |-> "ZN", names |-> <<"ZN">>]>>

\* residue 2 is missing
FixedCv ==
    <<[num |-> 1, resname |-> "ALA", names |-> <<"N", "CA">>],
      [num |-> 3, resname |-> "ZN", names |-> <<"ZN">>]>>

RangeOf(l, h) == [kind |-> "range", lo |-> l, hi |-> h]

\* region specifications of the chain-rich inputs: <<loops, ec, ic>>
FixedIntents ==
    {<<<<RangeOf(1, 1), RangeOf(1, 2)>>, <<RangeOf(1, 2)>>, <<>>>>,
     <<<<>>, <<RangeOf(2, 2)>>, <<RangeOf(1, 1)>>>>}

InitRest ==
    /\ pc = "parse"
    /\ loops = <<>> /\ ec = <<>> /\ ic = <<>>
    /\ ref_chain = <<>> /\ cv_chain = <<>>
    /\ ref_atoms = <<>> /\ cv_atoms = <<>>
    /\ grp_i = 0 /\ keys = <<>> /\ sup = <<>>
    /\ results = <<>> /\ out = <<>>
    /\ pdb_atoms = <<>> /\ pdb_i = 0 /\ pdb_out = <<>>

\* rich region specifications, a fixed pair of chains
InitArgs ==
    /\ \E n1 \in 0..MaxTokens : \E n2 \in 0..(MaxTokens - n1) :
       \E n3 \in 0..(MaxTokens - n1 - n2) :
       \E l \in [1..n1 -> Tokens], e \in [1..n2 -> Tokens], i \in [1..n3 -> Tokens] :
          /\ intent = <<l, e, i>>
          /\ args = make_args(l, e, i, "A")
    /\ ref_struct = make_struct({"A"}, "ref", FixedRef)
    /\ conv_struct = make_struct({"A"}, "cv", FixedCv)
    /\ InitRest

\* rich chains, fixed region specifications
InitChains ==
    /\ \E t \in FixedIntents :
          /\ intent = t
          /\ args = make_args(t[1], t[2], t[3], "A")
    /\ \E n1 \in 0..MaxRes : \E n2 \in 0..(MaxRes - n1) :
       \E rs \in [1..n1 -> ResidueShapes], cs \in [1..n2 -> ResidueShapes] :
          /\ ref_struct = make_struct({"A"}, "ref", rs)
          /\ conv_struct = make_struct({"A"}, "cv", cs)
    /\ InitRest

\* structures with and without the requested chain
InitLookup ==
    /\ \E t \in FixedIntents \cup {<<<<>>, <<>>, <<[kind |-> "single", lo |-> 1, hi |-> 1]>>>>} :
          /\ intent = t
          /\ args = make_args(t[1], t[2], t[3], "B")
    /\ \E rids \in {{"A"}, {"A", "B"}}, cids \in {{"A"}, {"A", "B"}} :
          /\ ref_struct = make_struct(rids, "ref", FixedRef)
          /\ conv_struct = make_struct(cids, "cv", FixedCv)
    /\ InitRest

Init == InitArgs \/ InitChains \/ InitLookup

(***************************************************************************)
(* main()                                                                  *)
(***************************************************************************)
\* loops = parse_ranges(args.loops) if args.loops else []; likewise ec, ic
ParseArgs ==
    /\ pc = "parse"
    /\ LET l == parse_arg(args.loops)
           e == parse_arg(args.ec)
           i == parse_arg(args.ic)
       IN  IF l.raised \/ e.raised \/ i.raised
           THEN pc' = "error" /\ UNCHANGED <<loops, ec, ic>>
           ELSE /\ pc' = "extract"
                /\ loops' = l.regions /\ ec' = e.regions /\ ic' = i.regions
    /\ UNCHANGED <<args, intent, ref_struct, conv_struct, ref_chain, cv_chain,
                   ref_atoms, cv_atoms, grp_i, keys, sup, results, out, strip_vars>>

\* extract_atoms(structure, chain_id): model[chain_id] raises KeyError if absent
has_chain(structure, chain_id) == chain_id \in DOMAIN structure

ExtractChains ==
    /\ pc = "extract"
    /\ IF has_chain(ref_struct, args.chain) /\ has_chain(conv_struct, args.chain)
       THEN /\ pc' = "classify"
            /\ ref_chain' = <<args.chain>> /\ cv_chain' = <<args.chain>>
       ELSE pc' = "error" /\ UNCHANGED <<ref_chain, cv_chain>>
    /\ UNCHANGED <<args, intent, ref_struct, conv_struct, loops, ec, ic,
                   ref_atoms, cv_atoms, grp_i, keys, sup, results, out, strip_vars>>

\* the chain objects behind the references
RefChain == ref_struct[ref_chain[1]]

CvChain == conv_struct[cv_chain[1]]

BuildGroups ==
    /\ pc = "classify"
    /\ ref_atoms' = atom_groups(RefChain, loops, ec, ic)
    /\ cv_atoms' = atom_groups(CvChain, loops, ec, ic)
    /\ results' = <<>>
    /\ grp_i' = 1
    /\ pc' = "match"
    /\ UNCHANGED <<args, intent, ref_struct, conv_struct, loops, ec, ic,
                   ref_chain, cv_chain, keys, sup, out, strip_vars>>

\* the loop variable of "for grp in ref_atoms"
Grp == dict_keys(ref_atoms)[grp_i]

RefMap == key_map(RefChain, dict_get(ref_atoms, Grp))

CvMap == key_map(CvChain, dict_get(cv_atoms, Grp))

\* where the loop goes after the body that ran at position i
loop_next(i) == IF i + 1 > Len(ref_atoms) THEN "write" ELSE "match"

\* variant: a group without shared keys is recorded with an RMSD over no pairs
empty_result_zero == <<[rms |-> {}]>>

\* the value recorded for a group without shared keys
empty_result == <<>>

\* maps, intersection, and the "if not keys" branch
MatchGroup ==
    /\ pc = "match"
    /\ LET ks == shared_keys(RefMap, CvMap)
       IN  IF ks = {}
           THEN /\ results' = dict_set(results, Grp, empty_result)
                /\ grp_i' = grp_i + 1
                /\ pc' = loop_next(grp_i)
                /\ keys' = <<>>
           ELSE /\ keys' \in iteration_orders(ks)
                /\ pc' = "fit"
                /\ UNCHANGED <<results, grp_i>>
    /\ UNCHANGED <<args, intent, ref_struct, conv_struct, loops, ec, ic,
                   ref_chain, cv_chain, ref_atoms, cv_atoms, sup, out, strip_vars>>

\* the two atom lists handed to set_atoms
fixed_atoms(map, order) == atoms_for(map, order)

\* variant: the target list is built in the opposite order
moving_atoms_reversed(map, order) ==
    atoms_for(map, [i \in 1..Len(order) |-> order[Len(order) + 1 - i]])

moving_atoms(map, order) == atoms_for(map, order)

\* sup = Superimposer(); sup.set_atoms([ref_map[k] ...], [cv_map[k] ...])
Superimpose ==
    /\ pc = "fit"
    /\ sup' = <<set_atoms(RefChain, CvChain,
                          fixed_atoms(RefMap, keys), moving_atoms(CvMap, keys))>>
    /\ pc' = "apply"
    /\ UNCHANGED <<args, intent, ref_struct, conv_struct, loops, ec, ic, ref_chain,
                   cv_chain, ref_atoms, cv_atoms, grp_i, keys, results, out, strip_vars>>

\* sup.apply(cv_chain.get_atoms()); results[grp] = sup.rms
ApplyAndRecord ==
    /\ pc = "apply"
    /\ conv_struct' = [conv_struct EXCEPT ![cv_chain[1]] =
                          apply(sup[1].rotran, CvChain, apply_targets(CvChain))]
    /\ results' = dict_set(results, Grp, <<sup[1].rms>>)
    /\ sup' = <<>>
    /\ keys' = <<>>
    /\ grp_i' = grp_i + 1
    /\ pc' = loop_next(grp_i)
    /\ UNCHANGED <<args, intent, ref_struct, loops, ec, ic, ref_chain, cv_chain,
                   ref_atoms, cv_atoms, out, strip_vars>>

\* the CSV file: header, then one row per entry of results
WriteReport ==
    /\ pc = "write"
    /\ out' = <<[header |-> csv_header, rows |-> csv_rows(RefChain, ref_atoms, results)]>>
    /\ pc' = "done"
    /\ UNCHANGED <<args, intent, ref_struct, conv_struct, loops, ec, ic, ref_chain,
                   cv_chain, ref_atoms, cv_atoms, grp_i, keys, sup, results, strip_vars>>

Next ==
    \/ ParseArgs
    \/ ExtractChains
    \/ BuildGroups
    \/ MatchGroup
    \/ Superimpose
    \/ ApplyAndRecord
    \/ WriteReport

Spec == Init /\ [][Next]_vars

(***************************************************************************)
(* gmx2pdb_strip.py: ProteinSelect.accept_atom and the filtered save.      *)
(* An atom read from the PDB file is [het, resname, name]; het is the      *)
(* hetero field of the residue id: " ", "W", or "H_" followed by the       *)
(* residue name.                                                           *)
(***************************************************************************)
\* atoms in the palmitoylated cysteine that the filter lets through
cysp_atom_names == {"N", "CA", "C", "O", "CB", "SG"}

\* res_id[0].startswith("H_")
starts_with_H_(het) == Len(het) >= 2 /\ het[1] = "H" /\ het[2] = "_"

accept_atom(atom) ==
    IF atom.het = <<" ">>
    THEN IF atom.resname \in standard_aa THEN TRUE
         ELSE IF atom.resname = "CYSP" THEN atom.name \in cysp_atom_names
         ELSE FALSE
    ELSE IF starts_with_H_(atom.het)
    THEN atom.resname = "ZN" /\ atom.name = "ZN"
    ELSE FALSE

\* atoms of the PDB file written by the conversion
MaxPdbAtoms == 2

PdbResnames == {"ALA", "CYSP", "ZN", "HOH"}

PdbAtomNames == {"N", "CA", "C", "O", "CB", "SG", "ZN", "C1"}

\* the hetero field the PDB parser gives a residue
het_field(hetatm, resname) ==
    IF ~hetatm THEN <<" ">>
    ELSE IF resname = "HOH" THEN <<"W">>
    ELSE <<"H", "_", resname>>

PdbAtoms ==
    {[het |-> het_field(h, rn), resname |-> rn, name |-> an] :
        h \in BOOLEAN, rn \in PdbResnames, an \in PdbAtomNames}

InitStrip ==
    /\ \E n \in 1..MaxPdbAtoms : pdb_atoms \in [1..n -> PdbAtoms]
    /\ pdb_i = 1
    /\ pdb_out = <<>>
    /\ pc = "idle"
    /\ args = <<>> /\ intent = <<>>
    /\ ref_struct = <<>> /\ conv_struct = <<>>
    /\ loops = <<>> /\ ec = <<>> /\ ic = <<>>
    /\ ref_chain = <<>> /\ cv_chain = <<>>
    /\ ref_atoms = <<>> /\ cv_atoms = <<>>
    /\ grp_i = 0 /\ keys = <<>> /\ sup = <<>>
    /\ results = <<>> /\ out = <<>>

\* io.save(output_pdb, ProteinSelect()): the next atom is written if accepted
SaveAtom ==
    /\ pdb_i >= 1 /\ pdb_i <= Len(pdb_atoms)
    /\ pdb_out' = IF accept_atom(pdb_atoms[pdb_i])
                  THEN Append(pdb_out, pdb_atoms[pdb_i]) ELSE pdb_out
    /\ pdb_i' = pdb_i + 1
    /\ UNCHANGED <<pdb_atoms, rmsd_vars>>

NextStrip == SaveAtom

SpecStrip == InitStrip /\ [][NextStrip]_vars

(***************************************************************************)
(* What a run is expected to compute, read off its inputs: the intervals   *)
(* the user meant, and the chains as parsed.                               *)
(***************************************************************************)
\* n lies in one of the closed intervals lo..hi the tokens stand for
Covers(ts, n) ==
    \E i \in 1..Len(ts) : ts[i].kind = "range" /\ ts[i].lo <= n /\ n <= ts[i].hi

\* residue numbers probed, on both sides of every interval end
Probes == 0..(WideNum + 1)

Parsed == pc \notin {"idle", "parse", "error"}

Classified == pc \in {"match", "fit", "apply", "write", "done"}

\* the chains the run works on, straight from the structures
InRef == ref_struct[args.chain]

InCv == conv_struct[args.chain]

KeyOf(chain, at) == <<chain[at[1]].num, chain[at[1]].atoms[at[2]].name>>

RegionOf(g) == IF g = "loop" THEN intent[1] ELSE IF g = "ec" THEN intent[2] ELSE intent[3]

\* the atom at of chain belongs to group g
Member(chain, g, at) ==
    /\ chain[at[1]].resname \in standard_aa
    /\ CASE g = "all" -> TRUE
         [] g = "backbone" -> chain[at[1]].atoms[at[2]].name \in {"N", "CA", "C"}
         [] OTHER -> Covers(RegionOf(g), chain[at[1]].num)

Members(chain, g) == {at \in get_atoms(chain) : Member(chain, g, at)}

KeysIn(chain, g) == {KeyOf(chain, at) : at \in Members(chain, g)}

Shared(g) == KeysIn(InRef, g) \cap KeysIn(InCv, g)

\* at comes before bt in the chain's iteration order
Before(at, bt) == at[1] < bt[1] \/ (at[1] = bt[1] /\ at[2] < bt[2])

\* the last atom of group g carrying key k
LastWith(chain, g, k) ==
    CHOOSE at \in Members(chain, g) :
        /\ KeyOf(chain, at) = k
        /\ \A bt \in Members(chain, g) : KeyOf(chain, bt) = k /\ bt # at => Before(bt, at)

Count(list, x) == Cardinality({i \in 1..Len(list) : list[i] = x})

Unmoved(chain) == \A at \in get_atoms(chain) : get_coord(chain, at).moved = <<>>

\* no coordinate of the converted structure has been written
TargetUntouched == \A c \in DOMAIN conv_struct : Unmoved(conv_struct[c])

(***************************************************************************)
(* C4: for every region specification written as comma-separated           *)
(* 'start-end' tokens and every residue number n, n is in the parsed       *)
(* region set exactly when lo <= n <= hi for one of the intervals, both    *)
(* ends inclusive; the empty set and an interval with start > end hold     *)
(* no number.                                                              *)
(***************************************************************************)
C4_RegionMembership ==
    Parsed =>
        \A n \in Probes :
            /\ in_regions(loops, n) <=> Covers(intent[1], n)
            /\ in_regions(ec, n) <=> Covers(intent[2], n)
            /\ in_regions(ic, n) <=> Covers(intent[3], n)

\* two intervals parsed for loops, one of them reversed, one two digits wide
C4_Witness ==
    /\ Parsed
    /\ Len(loops) = 2
    /\ loops[1][1] > loops[1][2]
    /\ loops[2][2] = WideNum
    /\ in_regions(loops, WideNum) /\ ~in_regions(loops, 1)

(***************************************************************************)
(* C5: atom_groups puts an atom of a non-standard residue in no group; an  *)
(* atom of a standard residue exactly once in all, in backbone iff its     *)
(* name is N, CA or C, and in loop, ec, ic exactly once iff its residue    *)
(* number is in that region set, each group independently.                 *)
(***************************************************************************)
PlacedAsMeant(chain, groups) ==
    \A at \in get_atoms(chain) : \A i \in 1..Len(group_names) :
        Count(dict_get(groups, group_names[i]), at) =
            IF Member(chain, group_names[i], at) THEN 1 ELSE 0

C5_Classification ==
    Classified =>
        /\ dict_keys(ref_atoms) = group_names
        /\ dict_keys(cv_atoms) = group_names
        /\ PlacedAsMeant(InRef, ref_atoms)
        /\ PlacedAsMeant(InCv, cv_atoms)

\* an atom under two loop intervals and in ec, an O outside backbone, a
\* non-standard residue left out
C5_Witness ==
    /\ Classified
    /\ \E at \in get_atoms(InRef) :
          /\ Cardinality({i \in 1..Len(loops) :
                 loops[i][1] <= get_resnum(InRef, at) /\ get_resnum(InRef, at) <= loops[i][2]}) = 2
          /\ Count(dict_get(ref_atoms, "loop"), at) = 1
          /\ Count(dict_get(ref_atoms, "ec"), at) = 1
    /\ \E at \in get_atoms(InRef) :
          /\ get_name(InRef, at) = "O"
          /\ Count(dict_get(ref_atoms, "all"), at) = 1
          /\ Count(dict_get(ref_atoms, "backbone"), at) = 0
    /\ \E at \in get_atoms(InRef) :
          /\ ~is_aa(InRef[at[1]])
          /\ Count(dict_get(ref_atoms, "all"), at) = 0

(***************************************************************************)
(* C6: a region specification with a token that is not two integers        *)
(* separated by one hyphen, or a chain identifier missing from the         *)
(* reference or the target structure, ends the run in an error with no     *)
(* output written and no target coordinate modified.                       *)
(***************************************************************************)
BadRegionSpec == malformed(intent[1]) \/ malformed(intent[2]) \/ malformed(intent[3])

ChainMissing == args.chain \notin DOMAIN ref_struct \/ args.chain \notin DOMAIN conv_struct

C6_FatalBeforeOutput ==
    /\ (pc \notin {"idle", "parse"} /\ BadRegionSpec) => pc = "error"
    /\ (pc \notin {"idle", "parse", "extract"} /\ ChainMissing) => pc = "error"
    /\ pc = "error" =>
          /\ BadRegionSpec \/ ChainMissing
          /\ out = <<>>
          /\ results = <<>>
          /\ TargetUntouched

\* the run has ended in an error on the chain lookup, the regions being fine
C6_Witness ==
    /\ pc = "error"
    /\ ~BadRegionSpec
    /\ args.chain \in DOMAIN ref_struct
    /\ args.chain \notin DOMAIN conv_struct
    /\ intent[1] # <<>>

(***************************************************************************)
(* The report and the superpositions a run is expected to produce.         *)
(***************************************************************************)
GroupAt(i) == group_names[i]

\* the rows of the written file
Rows == out[1].rows

\* the coordinate pairs of group g's fit when the target carries the transforms prev
ExpPairs(g, prev) ==
    {LET ra == LastWith(InRef, g, k)
         ca == LastWith(InCv, g, k)
     IN  <<origin("ref", ra[1], ra[2]), [at |-> <<"cv", ca[1], ca[2]>>, moved |-> prev]>> :
        k \in Shared(g)}

RECURSIVE ExpRun(_)
\* once the first n groups are done: the transforms every target atom carries,
\* and the results recorded
ExpRun(n) ==
    IF n = 0 THEN [moved |-> <<>>, results |-> <<>>]
    ELSE LET p == ExpRun(n - 1)
             g == GroupAt(n)
             pairs == ExpPairs(g, p.moved)
         IN  IF Shared(g) = {}
             THEN [moved |-> p.moved,
                   results |-> Append(p.results, [k |-> g, v |-> <<>>])]
             ELSE [moved |-> Append(p.moved, [fit |-> pairs]),
                   results |-> Append(p.results, [k |-> g, v |-> <<[rms |-> pairs]>>])]

\* the groups whose loop body has completed
GroupsDone == grp_i - 1

(***************************************************************************)
(* C1: the report holds exactly one record per group, in the order all,    *)
(* backbone, loop, ec, ic; a group whose reference and target maps share   *)
(* no key is recorded with rmsd absent ('NA') without an error, and the    *)
(* groups after it are still processed and recorded.                       *)
(***************************************************************************)
C1_OneRecordPerGroup ==
    /\ pc = "error" => grp_i = 0
    /\ Classified =>
          /\ dict_keys(results) = SubSeq(group_names, 1, GroupsDone)
          /\ \A i \in 1..Len(results) : Shared(GroupAt(i)) = {} => results[i].v = <<>>
    /\ pc \in {"match", "fit", "apply"} =>
          grp_i \in 1..Len(group_names) /\ dict_has(cv_atoms, Grp)
    /\ pc \in {"write", "done"} => grp_i = Len(group_names) + 1
    /\ pc = "done" =>
          /\ out[1].header = <<"group", "n_atoms", "rmsd">>
          /\ [i \in 1..Len(Rows) |-> Rows[i].group] = <<"all", "backbone", "loop", "ec", "ic">>
          /\ \A i \in 1..Len(Rows) : Shared(GroupAt(i)) = {} => Rows[i].rmsd.text = "NA"

\* a finished report where a group without shared keys precedes one with an RMSD
C1_Witness ==
    /\ pc = "done"
    /\ \E i \in 1..Len(Rows) : \E j \in (i + 1)..Len(Rows) :
          /\ Shared(GroupAt(i)) = {} /\ Rows[i].rmsd.text = "NA"
          /\ Shared(GroupAt(j)) # {} /\ Rows[j].rmsd.text = "%.3f"

(***************************************************************************)
(* C2: the reported n_atoms of a group is the number of distinct           *)
(* (residue_number, atom_name) keys among its reference atoms, whatever    *)
(* the target holds, while the RMSD is taken over the keys present on      *)
(* both sides only.                                                        *)
(***************************************************************************)
\* the pairs the RMSD of row i was taken over
RmsPairs(i) == Rows[i].rmsd.of[1].rms

C2_CountIsReferenceSide ==
    pc = "done" =>
        \A i \in 1..Len(Rows) :
            /\ Rows[i].n_atoms = Cardinality(KeysIn(InRef, GroupAt(i)))
            /\ Rows[i].rmsd.of # <<>> =>
                  /\ Cardinality(RmsPairs(i)) = Cardinality(Shared(GroupAt(i)))
                  /\ \A pr \in RmsPairs(i) :
                        /\ KeyOf(InRef, <<pr[1].at[2], pr[1].at[3]>>) \in Shared(GroupAt(i))
                        /\ KeyOf(InRef, <<pr[1].at[2], pr[1].at[3]>>)
                             = KeyOf(InCv, <<pr[2].at[2], pr[2].at[3]>>)

\* a group with an RMSD over fewer keys than it reports, and a group counted
\* although the target has none of its keys
C2_Witness ==
    /\ pc = "done"
    /\ \E i \in 1..Len(Rows) :
          /\ Rows[i].rmsd.of # <<>>
          /\ Cardinality(RmsPairs(i)) < Rows[i].n_atoms
    /\ \E i \in 1..Len(Rows) :
          /\ Rows[i].rmsd.of = <<>>
          /\ Rows[i].n_atoms >= 2
          /\ KeysIn(InCv, GroupAt(i)) = {}

(***************************************************************************)
(* C3 as stated: whenever a group's record has rmsd absent, its n_atoms    *)
(* is 0.                                                                   *)
(***************************************************************************)
C3_AbsentMeansZeroAtoms ==
    pc = "done" => \A i \in 1..Len(Rows) : Rows[i].rmsd.text = "NA" => Rows[i].n_atoms = 0

(***************************************************************************)
(* C3, amended: a record carries a numeric rmsd exactly when the group's   *)
(* matched key set is non-empty and rmsd absent exactly when it is empty;  *)
(* a record with rmsd absent reports the number of the group's reference   *)
(* keys, which is 0 only when the group has no reference atom.             *)
(***************************************************************************)
C3_ResultShape ==
    pc = "done" =>
        \A i \in 1..Len(Rows) :
            /\ Rows[i].rmsd.text \in {"NA", "%.3f"}
            /\ Rows[i].rmsd.text = "%.3f" <=> Shared(GroupAt(i)) # {}
            /\ Rows[i].rmsd.text = "%.3f" <=> Rows[i].rmsd.of # <<>>
            /\ Rows[i].rmsd.text = "NA" =>
                  /\ Rows[i].n_atoms = Cardinality(KeysIn(InRef, GroupAt(i)))
                  /\ Rows[i].n_atoms = 0 <=> Members(InRef, GroupAt(i)) = {}

\* absent with reference atoms counted, beside absent with none
C3_Witness ==
    /\ pc = "done"
    /\ \E i \in 1..Len(Rows) : Rows[i].rmsd.text = "NA" /\ Rows[i].n_atoms >= 2
    /\ \E i \in 1..Len(Rows) : Rows[i].rmsd.text = "NA" /\ Rows[i].n_atoms = 0

(***************************************************************************)
(* C7: the groups run in order on one set of target coordinates: a group   *)
(* with a non-empty match fits on the coordinates the groups before it     *)
(* left and applies its transform to every atom of the target chain; a     *)
(* group with an empty match, or whose fit has not completed, leaves them  *)
(* as they are; an RMSD once recorded stays as recorded.                   *)
(***************************************************************************)
C7_SequentialSuperposition ==
    Classified =>
        LET e == ExpRun(GroupsDone)
        IN  /\ \A at \in get_atoms(InCv) :
                  get_coord(InCv, at) = [at |-> <<"cv", at[1], at[2]>>, moved |-> e.moved]
            /\ \A c \in DOMAIN conv_struct \ {args.chain} : Unmoved(conv_struct[c])
            /\ \A at \in get_atoms(InRef) : get_coord(InRef, at).moved = <<>>
            /\ results = e.results
            /\ pc = "apply" => sup[1].rotran = [fit |-> ExpPairs(Grp, e.moved)]
            /\ pc # "apply" => sup = <<>>

\* all groups done: one without a match between two that were fitted, and a
\* target atom outside every group moved by both fits
C7_Witness ==
    /\ pc = "done"
    /\ \E i, j, k \in 1..Len(results) :
          /\ i < j /\ j < k
          /\ results[i].v # <<>> /\ results[j].v = <<>> /\ results[k].v # <<>>
          /\ results[i].v # results[k].v
    /\ \E at \in get_atoms(InCv) :
          /\ Count(dict_get(cv_atoms, "all"), at) = 0
          /\ Len(get_coord(InCv, at).moved) >= 2

(***************************************************************************)
(* C10: the two atom lists handed to the superposition have the same       *)
(* length, the number of shared keys; position i of both holds atoms of    *)
(* the same key; every shared key occurs once; and a key carried by        *)
(* several atoms of one side is represented by the last of them.           *)
(***************************************************************************)
C10_AlignedUniquePairs ==
    pc = "apply" =>
        LET f == sup[1].fixed
            m == sup[1].moving
        IN  /\ Len(f) = Cardinality(Shared(Grp))
            /\ Len(m) = Len(f)
            /\ \A i \in 1..Len(f) :
                  /\ KeyOf(InRef, f[i]) = KeyOf(InCv, m[i])
                  /\ KeyOf(InRef, f[i]) \in Shared(Grp)
                  /\ f[i] = LastWith(InRef, Grp, KeyOf(InRef, f[i]))
                  /\ m[i] = LastWith(InCv, Grp, KeyOf(InCv, m[i]))
            /\ \A i, j \in 1..Len(f) : i # j => KeyOf(InRef, f[i]) # KeyOf(InRef, f[j])

\* two pairs handed over, a key of theirs carried by two reference atoms
C10_Witness ==
    /\ pc = "apply"
    /\ Len(sup[1].fixed) >= 2
    /\ \E i \in 1..Len(sup[1].fixed) : \E bt \in Members(InRef, Grp) :
          /\ bt # sup[1].fixed[i]
          /\ KeyOf(InRef, bt) = KeyOf(InRef, sup[1].fixed[i])

(***************************************************************************)
(* C9: the filter keeps an atom only if it is of a standard amino acid     *)
(* residue, or a backbone atom of a CYSP residue, or the zinc ion (residue *)
(* ZN, atom ZN); every other atom is rejected.                             *)
(***************************************************************************)
MainChainNames == {"N", "CA", "C", "O"}

Wanted(atom) ==
    \/ atom.resname \in standard_aa
    \/ atom.resname = "CYSP" /\ atom.name \in MainChainNames
    \/ atom.resname = "ZN" /\ atom.name = "ZN"

C9_KeepsOnlyWanted == \A i \in 1..Len(pdb_out) : Wanted(pdb_out[i])

====
